---- MODULE Spec2Model ----
(***************************************************************************)
(* Model of src/app.py: a Streamlit script that shows an HTML document     *)
(* either inline or through a tiny static HTTP server kept in the          *)
(* session state.  The script is re-executed on every interaction (one     *)
(* "cycle"); several browser sessions run the script in one process, each  *)
(* with its own session_state, sharing the process working directory and   *)
(* the port space.  A cycle is split only where the code blocks            *)
(* (srv.shutdown() waits for the worker) and between server_close() and    *)
(* the start of the replacement server, so that their order is visible.    *)
(*                                                                         *)
(* Python None is modelled per field: NoneSrv (handle), NoneRoot           *)
(* (directory string), NonePort (port), NoPath (html_path), NoUpload.      *)
(* Paths are tuples of components; Path.parent drops the last one.  A      *)
(* server's sock field is the port its listening socket is bound to, or    *)
(* Closed.                                                                 *)
(* Failures of reading a file (lines 123-126, 150-153, 167-170) do not     *)
(* touch the server and are left out.                                      *)
(***************************************************************************)
EXTENDS Integers, Sequences, FiniteSets, TLC

\* ---------------------------------------------------------------- bounds
MaxServers == 2      \* server objects created in one run of the process
MaxPort    == 2      \* size of the ephemeral port range

\* ------------------------------------------------------------- constants
Sessions == {"s1", "s2"}   \* the browser sessions of the process
Solo     == {"s1"}         \* one session on its own
Ports    == 1..MaxPort

NoneSrv  == 0
NonePort == 0
Closed   == 0        \* a socket that is closed is bound to no port
NoneRoot == <<>>
NoPath   == <<>>
NoUpload == ""

EmbedMode  == "Embed (srcdoc)"
StaticMode == "Static server (handles assets)"
Modes      == {EmbedMode, StaticMode}

\* the filesystem the typed paths are resolved against
Files     == { <<"d1", "a.html">>, <<"d1", "b.html">> }
Dirs      == { <<"d1">> }
PathStrs  == Files \cup { <<>>, <<"d1">>, <<"d1", "zz.html">> }
Uploads   == { NoUpload, "u.html" }
\* the widget values of one interaction; with an upload the typed path is not
\* looked at, so one typed path stands for all
Inputs    == { w \in [uploaded : Uploads, path_str : PathStrs, mode : Modes] :
                 w.uploaded # NoUpload => w.path_str \in { <<>>, <<"d1", "a.html">> } }
tmp_dir   == <<"tmp", "_html_viewer_cache">>
default_repo_html == <<"repo", "corr_beta_MULTI_REPORT.html">>
StartDir  == <<"repo">>

VARIABLES
  session,        \* st.session_state of each session
  pc,             \* where each session's script run is
  run,            \* locals of the current/last script run: mode, and root (line 182;
                  \* NoneRoot when no document was selected)
  out,            \* what the current/last script run showed to the user
  servers,        \* every TCPServer object created so far (index = identity)
  cwd,            \* the process working directory
  default_exists  \* whether the bundled default document is present

vars == <<session, pc, run, out, servers, cwd, default_exists>>

\* ------------------------------------------------------------ pure parts
parent(p) == SubSeq(p, 1, Len(p) - 1)

exists(p)  == p \in Files \cup Dirs
is_file(p) == p \in Files

startswithEmbed(mode) == mode = EmbedMode

\* PickSource without the exists/is_file test of line 120
PickSource_unchecked(uploaded, path_str) ==
  IF uploaded # NoUpload
    THEN [html_path |-> tmp_dir \o <<uploaded>>, warning |-> FALSE]
  ELSE IF path_str # <<>>
    THEN [html_path |-> path_str, warning |-> TRUE]
  ELSE [html_path |-> NoPath, warning |-> FALSE]

\* lines 105-128: uploaded file first, then the typed path
PickSource(uploaded, path_str) ==
  IF uploaded # NoUpload
    THEN [html_path |-> tmp_dir \o <<uploaded>>, warning |-> FALSE]
  ELSE IF path_str # <<>>
    THEN IF exists(path_str) /\ is_file(path_str)
           THEN [html_path |-> path_str, warning |-> FALSE]
           ELSE [html_path |-> NoPath, warning |-> TRUE]
  ELSE [html_path |-> NoPath, warning |-> FALSE]

\* lines 145-157: fall back to the bundled default; NoPath means st.stop()
DefaultFallback(src, present) ==
  IF src.html_path # NoPath THEN src.html_path
  ELSE IF present THEN default_repo_html
  ELSE NoPath

\* needs_restart that restarts on every cycle
needs_restart_always(st, root) == TRUE

\* needs_restart that forgets to compare the directory
needs_restart_if_none(st, root) == st.static_server = NoneSrv

\* lines 183-186
needs_restart(st, root) ==
  st.static_server = NoneSrv \/ st.static_root # root

\* a shutdown() that waits without raising the request flag
shutdown_no_request(srv) == srv

\* line 71: BaseServer.shutdown() raises the request flag (and then waits)
shutdown(srv) == [srv EXCEPT !.shutdown_request = TRUE]

\* a server_close() that leaves the socket open
server_close_leak(srv) == srv

\* line 75: server_close() closes the listening socket
server_close(srv) == [srv EXCEPT !.sock = Closed]

\* lines 39-42: a port nobody is bound to at the time of the call
InUse == { servers[i].sock : i \in { j \in DOMAIN servers : servers[j].sock # Closed } }
_find_free_port == Ports \ InUse

\* lines 55, 63-64: the new server object, bound and with its worker created
NewServer(s, listen_port) ==
  [owner |-> s, sock |-> listen_port, worker |-> "new",
   shutdown_request |-> FALSE, is_shut_down |-> FALSE]

\* lines 191-193
Recorded(id, root, port) ==
  [static_server |-> id, static_root |-> root, static_port |-> port]

\* lines 177-179 and 82-86
Cleared == Recorded(NoneSrv, NoneRoot, NonePort)

\* SimpleHTTPRequestHandler without a directory argument serves the process
\* working directory (line 54 is the only place the root is given to it)
ServedDir(i) == cwd

Active(i) == servers[i].sock # Closed \/ servers[i].worker = "loop"

Pending == { t \in Sessions : pc[t] # "idle" /\ ~startswithEmbed(run[t].mode) }

NoOut == [result |-> "none", warning |-> FALSE, raised |-> FALSE, bind_error |-> FALSE,
          frame_port |-> NonePort, started |-> NoneSrv, stopped |-> NoneSrv]

NoRun == [mode |-> EmbedMode, root |-> NoneRoot]

\* ---------------------------------------------------------------- Init
Init ==
  /\ session = [s \in Sessions |-> Cleared]
  /\ pc = [s \in Sessions |-> "idle"]
  /\ run = [s \in Sessions |-> NoRun]
  /\ out = [s \in Sessions |-> NoOut]
  /\ servers = <<>>
  /\ cwd = StartDir
  /\ default_exists \in BOOLEAN

\* ------------------------------------------------------------- actions
\* One script run up to its first blocking call (or to its end).
CycleBegin(s, w) ==
  /\ pc[s] = "idle"
  /\ LET mode      == w.mode
         src       == PickSource(w.uploaded, w.path_str)
         html_path == DefaultFallback(src, default_exists)
         st        == session[s]
         root      == IF html_path = NoPath THEN NoneRoot ELSE parent(html_path)
         r         == [mode |-> mode, root |-> root]
         o         == [NoOut EXCEPT !.warning = src.warning]
     IN
     /\ run' = [run EXCEPT ![s] = r]
     /\ IF html_path = NoPath
          THEN \* line 157: st.stop()
               /\ out' = [out EXCEPT ![s] = [o EXCEPT !.result = "stop"]]
               /\ UNCHANGED <<session, pc, servers>>
        ELSE IF startswithEmbed(mode)
          THEN IF st.static_server # NoneSrv
                 THEN \* lines 175-176: enter _stop_static_server
                      /\ servers' = [servers EXCEPT ![st.static_server] = shutdown(@)]
                      /\ pc' = [pc EXCEPT ![s] = "shutdown"]
                      /\ out' = [out EXCEPT ![s] = [o EXCEPT !.result = "running"]]
                      /\ UNCHANGED session
                 ELSE /\ out' = [out EXCEPT ![s] = [o EXCEPT !.result = "embed"]]
                      /\ UNCHANGED <<session, pc, servers>>
        ELSE IF needs_restart(st, root)
          THEN /\ Len(servers) + Cardinality(Pending) < MaxServers
               /\ out' = [out EXCEPT ![s] = [o EXCEPT !.result = "running"]]
               /\ UNCHANGED session
               /\ IF st.static_server # NoneSrv
                    THEN /\ servers' = [servers EXCEPT ![st.static_server] = shutdown(@)]
                         /\ pc' = [pc EXCEPT ![s] = "shutdown"]
                    ELSE /\ pc' = [pc EXCEPT ![s] = "start"]
                         /\ UNCHANGED servers
        ELSE \* lines 196-204: reuse the recorded server
             /\ out' = [out EXCEPT ![s] = [o EXCEPT !.result = "static",
                                                    !.frame_port = st.static_port]]
             /\ UNCHANGED <<session, pc, servers>>
  /\ UNCHANGED <<cwd, default_exists>>

\* srv.shutdown() returns once the worker has left serve_forever; then
\* server_close(), and for the Embed branch the rest of the script.
ShutdownReturn(s) ==
  /\ pc[s] = "shutdown"
  /\ LET id == session[s].static_server IN
     /\ servers[id].is_shut_down
     /\ servers' = [servers EXCEPT ![id] = server_close(@)]
     /\ IF startswithEmbed(run[s].mode)
          THEN /\ session' = [session EXCEPT ![s] = Cleared]
               /\ pc' = [pc EXCEPT ![s] = "idle"]
               /\ out' = [out EXCEPT ![s] = [@ EXCEPT !.result = "embed", !.stopped = id]]
          ELSE /\ pc' = [pc EXCEPT ![s] = "start"]
               /\ out' = [out EXCEPT ![s] = [@ EXCEPT !.stopped = id]]
               /\ UNCHANGED session
  /\ UNCHANGED <<run, cwd, default_exists>>

\* lines 189-204: pick a port, chdir, bind, start the worker, record, show.
\* raced: somebody else bound the port between _find_free_port and the bind,
\* so TCPServer(...) raises OSError, which nothing catches.
StartStatic(s) ==
  /\ pc[s] = "start"
  /\ \E port \in _find_free_port, raced \in BOOLEAN :
       LET root == run[s].root
           id   == Len(servers) + 1
       IN
       /\ cwd' = root
       /\ pc' = [pc EXCEPT ![s] = "idle"]
       /\ IF raced
            THEN /\ out' = [out EXCEPT ![s] = [@ EXCEPT !.result = "exception",
                                                        !.raised = TRUE, !.bind_error = TRUE]]
                 /\ UNCHANGED <<session, servers>>
            ELSE /\ servers' = Append(servers, NewServer(s, port))
                 /\ session' = [session EXCEPT ![s] = Recorded(id, root, port)]
                 /\ out' = [out EXCEPT ![s] = [@ EXCEPT !.result = "static",
                                                        !.frame_port = port, !.started = id]]
  /\ UNCHANGED <<run, default_exists>>

\* lines 57-59: the worker thread enters serve_forever
ServeEnter(i) ==
  /\ i \in DOMAIN servers
  /\ servers[i].worker = "new"
  /\ servers' = [servers EXCEPT ![i] = [@ EXCEPT !.worker = "loop", !.is_shut_down = FALSE]]
  /\ UNCHANGED <<session, pc, run, out, cwd, default_exists>>

\* serve_forever sees the shutdown request, leaves the loop and signals it
ServeExit(i) ==
  /\ i \in DOMAIN servers
  /\ servers[i].worker = "loop"
  /\ servers[i].shutdown_request
  /\ servers' = [servers EXCEPT ![i] = [@ EXCEPT !.worker = "done",
                                                 !.shutdown_request = FALSE,
                                                 !.is_shut_down = TRUE]]
  /\ UNCHANGED <<session, pc, run, out, cwd, default_exists>>

\* one session on its own: the other one never interacts
Next ==
  \/ \E s \in Solo, w \in Inputs : CycleBegin(s, w)
  \/ \E s \in Solo : ShutdownReturn(s)
  \/ \E s \in Solo : StartStatic(s)
  \/ \E i \in 1..MaxServers : ServeEnter(i)
  \/ \E i \in 1..MaxServers : ServeExit(i)

Spec == Init /\ [][Next]_vars

\* the foreground script run continues whenever it can, and the worker threads
\* are scheduled
Fairness ==
  /\ \A s \in Solo : WF_vars(ShutdownReturn(s)) /\ WF_vars(StartStatic(s))
  /\ \A i \in 1..MaxServers : WF_vars(ServeEnter(i)) /\ WF_vars(ServeExit(i))

FairSpec == Spec /\ Fairness

\* both sessions interact, in one process
NextShared ==
  \/ \E s \in Sessions, w \in Inputs : CycleBegin(s, w)
  \/ \E s \in Sessions : ShutdownReturn(s)
  \/ \E s \in Sessions : StartStatic(s)
  \/ \E i \in 1..MaxServers : ServeEnter(i)
  \/ \E i \in 1..MaxServers : ServeExit(i)

SpecShared == Init /\ [][NextShared]_vars

TypeOK ==
  /\ pc \in [Sessions -> {"idle", "shutdown", "start"}]
  /\ \A s \in Sessions : session[s].static_server \in 0..Len(servers)
  /\ Len(servers) <= MaxServers

\* ------------------------------------------------------------ properties
Owned(s)       == { i \in DOMAIN servers : servers[i].owner = s }
ActiveOf(s)    == { i \in Owned(s) : Active(i) }
Selected(w)    == DefaultFallback(PickSource(w.uploaded, w.path_str), default_exists)
BadTypedPath(w) ==
  /\ w.uploaded = NoUpload
  /\ w.path_str # <<>>
  /\ ~(exists(w.path_str) /\ is_file(w.path_str))

\* C1: a session never has more than one active server (socket open or worker
\* in its accept loop), and when a script run is about to bind a new server
\* (pc = "start") every server the session started before is shut down and
\* closed.
C1_AtMostOneServer ==
  \A s \in Sessions :
    /\ Cardinality(ActiveOf(s)) <= 1
    /\ pc[s] = "start" => ActiveOf(s) = {}

\* a replacement server is running and the one it replaced is down
C1_Witness ==
  \E s \in Sessions :
    /\ pc[s] = "idle"
    /\ out[s].stopped = 1 /\ out[s].started = 2
    /\ Owned(s) = {1, 2} /\ ActiveOf(s) = {2}

\* C2: a Static-server script run that finds a recorded server and selects a
\* document whose parent directory is the recorded one changes nothing of the
\* server life cycle: session state, server objects and working directory stay,
\* the run ends at once and the frame points at the recorded port.
C2_SameDirectoryNoOp ==
  [][ \A s \in Sessions, w \in Inputs :
        ( /\ CycleBegin(s, w)
          /\ w.mode = StaticMode
          /\ Selected(w) # NoPath
          /\ session[s].static_server # NoneSrv
          /\ session[s].static_root = parent(Selected(w)) )
        => /\ UNCHANGED <<session, servers, cwd>>
           /\ pc'[s] = "idle"
           /\ out'[s].started = NoneSrv /\ out'[s].stopped = NoneSrv
           /\ out'[s].frame_port = session[s].static_port ]_vars

\* a run reused the running server
C2_Witness ==
  \E s \in Sessions :
    /\ pc[s] = "idle" /\ out[s].result = "static"
    /\ out[s].started = NoneSrv /\ out[s].stopped = NoneSrv
    /\ session[s].static_server # NoneSrv
    /\ Active(session[s].static_server)
    /\ out[s].frame_port = session[s].static_port

\* C3: after a script run in Embed mode the session records no server
\* (handle, directory and port are None) and the session has no active server.
C3_EmbedLeavesNoServer ==
  \A s \in Sessions :
    (pc[s] = "idle" /\ out[s].result # "none" /\ startswithEmbed(run[s].mode))
      => (session[s] = Cleared /\ ActiveOf(s) = {})

\* C4: after a script run that ended with no document selected the session
\* records no server and has no active server.
C4_NoDocumentTearsDown ==
  \A s \in Sessions :
    (pc[s] = "idle" /\ out[s].result = "stop")
      => (session[s] = Cleared /\ ActiveOf(s) = {})

\* C5: a Static-server script run that selects a document in directory D and
\* finds no recorded server, or one recorded for another directory, takes the
\* restart path; and when that path completes, the session records
\* Running(D, p) for exactly one new server object, which listens on p, p is
\* the port the frame points at, and no other server of the session is active.
C5_RestartStartsOneServer ==
  [][ \A s \in Sessions :
        /\ \A w \in Inputs :
             ( /\ CycleBegin(s, w)
               /\ w.mode = StaticMode
               /\ Selected(w) # NoPath
               /\ \/ session[s].static_server = NoneSrv
                  \/ session[s].static_root # parent(Selected(w)) )
             => pc'[s] \in {"shutdown", "start"}
        /\ (pc[s] = "start" /\ pc'[s] = "idle" /\ out'[s].result = "static")
             => LET id == session'[s].static_server IN
                /\ Len(servers') = Len(servers) + 1
                /\ id = Len(servers')
                /\ session'[s].static_root = run[s].root
                /\ session'[s].static_port \in Ports
                /\ servers'[id].sock = session'[s].static_port
                /\ servers'[id].owner = s
                /\ out'[s].frame_port = session'[s].static_port
                /\ out'[s].started = id
                /\ { i \in DOMAIN servers' : servers'[i].owner = s
                       /\ (servers'[i].sock # Closed \/ servers'[i].worker = "loop") } = {id}
      ]_vars

\* a run replaced the server of another directory
C5_Witness ==
  \E s \in Sessions :
    /\ pc[s] = "idle" /\ out[s].result = "static"
    /\ out[s].stopped = 1 /\ out[s].started = 2
    /\ session[s] = Recorded(2, run[s].root, servers[2].sock)
    /\ servers[2].sock # Closed

\* C6: a failed bind does not propagate out of the script run, and the run
\* still shows a frame.
C6_BindErrorDiscarded ==
  \A s \in Sessions :
    out[s].bind_error => (~out[s].raised /\ out[s].frame_port # NonePort)

\* C7 as stated: with no upload and a typed path that is no regular file, the
\* script run ends with no document selected, shows the warning and starts no
\* server, whether or not the bundled default document is present.
C7_BadPathSelectsNothing ==
  [][ \A s \in Sessions, w \in Inputs :
        (CycleBegin(s, w) /\ BadTypedPath(w))
        => /\ out'[s].result = "stop" /\ run'[s].root = NoneRoot
           /\ out'[s].warning
           /\ pc'[s] = "idle" /\ servers' = servers ]_vars

\* C7 amended: the same, when the bundled default document is absent.
C7_BadPathNoDefault ==
  [][ \A s \in Sessions, w \in Inputs :
        (CycleBegin(s, w) /\ BadTypedPath(w) /\ ~default_exists)
        => /\ out'[s].result = "stop" /\ run'[s].root = NoneRoot
           /\ out'[s].warning
           /\ pc'[s] = "idle" /\ servers' = servers ]_vars

\* a run ended on a bad typed path with no default document
C7_Witness ==
  \E s \in Sessions :
    /\ ~default_exists
    /\ pc[s] = "idle" /\ out[s].result = "stop" /\ out[s].warning

\* C8: whenever a finished Static-server run shows the frame, a server of the
\* session listens on the frame's port; and a recorded handle refers to a
\* server whose socket is open.
C8_FrameHasLiveServer ==
  \A s \in Sessions :
    pc[s] = "idle" =>
      /\ out[s].result = "static" =>
           \E i \in Owned(s) : servers[i].sock = out[s].frame_port
      /\ session[s].static_server # NoneSrv =>
           servers[session[s].static_server].sock # Closed

\* C9: a worker is in its accept loop only while its server's socket is open,
\* at most one per session; a closed server's worker has left the loop for
\* good; every teardown returns and every script run ends.
C9_WorkerLivesWithServer ==
  /\ [](\A i \in DOMAIN servers :
          /\ servers[i].worker = "loop" => servers[i].sock # Closed
          /\ servers[i].sock = Closed => servers[i].worker = "done")
  /\ [](\A s \in Sessions :
          Cardinality({ i \in Owned(s) : servers[i].worker = "loop" }) <= 1)
  /\ \A s \in Sessions : (pc[s] = "shutdown") ~> (pc[s] # "shutdown")
  /\ \A s \in Sessions : (pc[s] # "idle") ~> (pc[s] = "idle")

\* a teardown of a server whose worker was serving has returned
C9_Witness ==
  \E s \in Sessions :
    /\ pc[s] = "idle" /\ out[s].stopped # NoneSrv
    /\ servers[out[s].stopped].sock = Closed
    /\ servers[out[s].stopped].worker = "done"

\* C10: the directory a running server serves is the one its session recorded
\* and the parent directory of the document the session selected last.
C10_ServedDirIsRecorded ==
  \A s \in Sessions :
    LET id == session[s].static_server IN
    (pc[s] = "idle" /\ id # NoneSrv /\ servers[id].sock # Closed)
      => /\ ServedDir(id) = session[s].static_root
         /\ run[s].root # NoneRoot => run[s].root = session[s].static_root
====
